---- MODULE Spec2Model ----
(***************************************************************************)
(* Model of scripts/utils.py: the glTF accessor decoder, the mesh loader   *)
(* and dumper, the 4x4 Transform type and the scene-graph transform        *)
(* printer.  Python lists are modelled as sequences; a Python index i      *)
(* (0-based, negative values counting from the end) is resolved by PyIndex *)
(* and a Python slice by PySlice.  An optional dictionary key is a         *)
(* sequence of length 0 (absent) or 1 (present).  A raised exception is a  *)
(* result record with ok = FALSE.                                          *)
(***************************************************************************)
EXTENDS Integers, Sequences, FiniteSets, TLC

VARIABLES gltf, buffer, arg, pc, ret, nodes, idx, stack, out, fail

vars == <<gltf, buffer, arg, pc, ret, nodes, idx, stack, out, fail>>

(***************************************************************************)
(* Bounds of the model.                                                    *)
(***************************************************************************)
MaxCount == 2
MaxBufLen == 8
MaxIdx == 4
MaxVerts == 2
MaxNodes == 3
MaxEdges == 3
RecursionLimit == 5

(***************************************************************************)
(* Python built-ins used by the code.                                      *)
(***************************************************************************)
None == <<>>

Some(x) == <<x>>

IsNone(o) == Len(o) = 0

\* dict.get(key, default)
Get(o, default) == IF Len(o) = 0 THEN default ELSE o[1]

PyMax(a, b) == IF b > a THEN b ELSE a

\* list[i]: valid for -len <= i < len, negative i counts from the end
PyIndexOk(s, i) == i >= 0 - Len(s) /\ i < Len(s)

PyPos(s, i) == IF i < 0 THEN i + Len(s) ELSE i

PyIndex(s, i) == s[PyPos(s, i) + 1]

\* slice bound normalisation of seq[b:e]
SliceBound(k, n) == IF k < 0 THEN (IF k + n < 0 THEN 0 ELSE k + n)
                    ELSE IF k > n THEN n ELSE k

\* 0-based positions of s that s[b:e] reads
SlicePositions(s, b, e) ==
    {p \in 0..(Len(s) - 1) : p >= SliceBound(b, Len(s)) /\ p < SliceBound(e, Len(s))}

PySlice(s, b, e) ==
    LET lo == SliceBound(b, Len(s))
        hi == SliceBound(e, Len(s))
    IN  IF hi > lo THEN [k \in 1..(hi - lo) |-> s[lo + k]] ELSE <<>>

(***************************************************************************)
(* glTF mesh loading: element and component tables.                        *)
(***************************************************************************)
ElementTypes == {"SCALAR", "VEC2", "VEC3", "VEC4", "MAT2", "MAT3", "MAT4"}

NUM_COMPONENTS(t) ==
    CASE t = "SCALAR" -> 1
      [] t = "VEC2" -> 2
      [] t = "VEC3" -> 3
      [] t = "VEC4" -> 4
      [] t = "MAT2" -> 4
      [] t = "MAT3" -> 9
      [] t = "MAT4" -> 16

BYTE == 5120
UNSIGNED_BYTE == 5121
SHORT == 5122
UNSIGNED_SHORT == 5123
UNSIGNED_INT == 5125
FLOAT == 5126

ComponentTypes == {BYTE, UNSIGNED_BYTE, SHORT, UNSIGNED_SHORT, UNSIGNED_INT, FLOAT}

COMPONENT_SIZE(c) ==
    CASE c = BYTE -> 1
      [] c = UNSIGNED_BYTE -> 1
      [] c = SHORT -> 2
      [] c = UNSIGNED_SHORT -> 2
      [] c = UNSIGNED_INT -> 4
      [] c = FLOAT -> 4

RECURSIVE Pow256(_)
Pow256(n) == IF n = 0 THEN 1 ELSE 256 * Pow256(n - 1)

\* little-endian unsigned value of a byte string
RECURSIVE LittleEndian(_)
LittleEndian(x) ==
    IF Len(x) = 0 THEN 0 ELSE x[1] + 256 * LittleEndian(Tail(x))

Signed(v, size) == IF 2 * v >= Pow256(size) THEN v - Pow256(size) ELSE v

\* struct.unpack(fmt, x)[0]; a FLOAT is kept as its IEEE-754 bit pattern
COMPONENT_PARSERS(c, x) ==
    IF Len(x) # COMPONENT_SIZE(c)
    THEN [ok |-> FALSE, val |-> 0]
    ELSE CASE c = BYTE -> [ok |-> TRUE, val |-> Signed(LittleEndian(x), 1)]
           [] c = UNSIGNED_BYTE -> [ok |-> TRUE, val |-> LittleEndian(x)]
           [] c = SHORT -> [ok |-> TRUE, val |-> Signed(LittleEndian(x), 2)]
           [] c = UNSIGNED_SHORT -> [ok |-> TRUE, val |-> LittleEndian(x)]
           [] c = UNSIGNED_INT -> [ok |-> TRUE, val |-> LittleEndian(x)]
           [] c = FLOAT -> [ok |-> TRUE, val |-> [f32 |-> LittleEndian(x)]]

_parse_element_data(element_type, component_type, element_buffer) ==
    LET num_components == NUM_COMPONENTS(element_type)
        component_size == COMPONENT_SIZE(component_type)
        comp(i) == COMPONENT_PARSERS(component_type,
                       PySlice(element_buffer, i * component_size,
                               i * component_size + component_size))
    IN  IF num_components = 1
        THEN COMPONENT_PARSERS(component_type, element_buffer)
        ELSE IF \A i \in 0..(num_components - 1) : comp(i).ok
             THEN [ok |-> TRUE, val |-> [k \in 1..num_components |-> comp(k - 1).val]]
             ELSE [ok |-> FALSE, val |-> 0]

Raise(e) == [ok |-> FALSE, err |-> e, val |-> <<>>, reads |-> {}]

\* the result carries, besides the decoded list, the buffer positions the
\* slices at line 111 read
_parse_accessor_data(g, buf, accessor_index) ==
    IF ~PyIndexOk(g.accessors, accessor_index) THEN Raise("IndexError")
    ELSE
    LET accessor == PyIndex(g.accessors, accessor_index)
        view_index == accessor.bufferView
    IN  IF ~PyIndexOk(g.bufferViews, view_index) THEN Raise("IndexError")
        ELSE
        LET view == PyIndex(g.bufferViews, view_index)
            accessor_offset == Get(accessor.byteOffset, 0)
            view_offset == Get(view.byteOffset, 0)
            buffer_offset == accessor_offset + view_offset
            element_type == accessor.type
            component_type == accessor.componentType
            num_components == NUM_COMPONENTS(element_type)
            component_size == COMPONENT_SIZE(component_type)
            element_size == num_components * component_size
            view_stride == Get(view.byteStride, 0)
            element_stride == PyMax(element_size, view_stride)
            element_count == accessor.count
            view_length == view.byteLength
            required_size == element_stride * (element_count - 1) + element_size
            element_begin(i) == buffer_offset + i * element_stride
            element_end(i) == element_begin(i) + element_size
            element_data(i) == _parse_element_data(element_type, component_type,
                                   PySlice(buf, element_begin(i), element_end(i)))
        IN  IF view.buffer # 0 THEN Raise("AssertionError")
            ELSE IF ~(accessor_offset + required_size <= view_length)
            THEN Raise("AssertionError")
            ELSE IF \E i \in 0..(element_count - 1) : ~element_data(i).ok
            THEN Raise("struct.error")
            ELSE [ok |-> TRUE, err |-> "none",
                  val |-> [k \in 1..element_count |-> element_data(k - 1).val],
                  reads |-> UNION {SlicePositions(buf, element_begin(i), element_end(i)) :
                                     i \in 0..(element_count - 1)}]

(***************************************************************************)
(* Inputs of the accessor decoder.                                         *)
(***************************************************************************)
\* the byte at 0-based position p of the input buffer
BufferByte(p) == IF p < 2 THEN 251 + 3 * p ELSE 3 * p - 5

MakeBuffer(n) == [k \in 1..n |-> BufferByte(k - 1)]

NoResult == [ok |-> FALSE, err |-> "pending", val |-> <<>>, reads |-> {}]

\* no exception has been raised
NoFailure == [err |-> "none", node |-> 0, child |-> 0]

AccessorIndexes == {-2, -1, 0, 1}
ViewIndexes == {-1, 0, 1}
BufferIds == {0, 1}
AccessorOffsets == {None, Some(-2), Some(-1), Some(1)}
ViewOffsets == {None, Some(1), Some(3)}
ViewStrides == {None, Some(3)}
ViewLengths == {2, 5, 8}
AccElementTypes == {"SCALAR", "VEC2"}
BufferLengths == {5, MaxBufLen}

Accessors ==
    [bufferView : ViewIndexes, byteOffset : AccessorOffsets, type : AccElementTypes,
     componentType : ComponentTypes, count : 0..MaxCount]

BufferViews ==
    [buffer : BufferIds, byteOffset : ViewOffsets, byteLength : ViewLengths,
     byteStride : ViewStrides]

InitAccessor ==
    /\ \E a \in Accessors, v \in BufferViews :
          gltf = [accessors |-> <<a>>, bufferViews |-> <<v>>,
                  scene |-> 0, scenes |-> <<>>, nodes |-> <<>>]
    /\ \E n \in BufferLengths : buffer = MakeBuffer(n)
    /\ arg \in AccessorIndexes
    /\ pc = "parse"
    /\ ret = NoResult
    /\ nodes = <<>>
    /\ idx = 0
    /\ stack = <<>>
    /\ out = <<>>
    /\ fail = NoFailure

\* a call of _parse_accessor_data(gltf, buffer, arg)
ParseAccessor ==
    /\ pc = "parse"
    /\ ret' = _parse_accessor_data(gltf, buffer, arg)
    /\ pc' = "parsed"
    /\ UNCHANGED <<gltf, buffer, arg, nodes, idx, stack, out, fail>>

NextAccessor == ParseAccessor

SpecAccessor == InitAccessor /\ [][NextAccessor]_vars

(***************************************************************************)
(* Mesh loader and dumper.  In mesh_data an absent attribute is None and a *)
(* decoded one is Some(list).                                              *)
(***************************************************************************)
RaiseMesh(e) == [ok |-> FALSE, err |-> e, val |-> <<>>]

\* an optional attribute: parser(attributes[key]) if the key is present
ParseOptional(g, buf, key) ==
    IF IsNone(key) THEN [ok |-> TRUE, val |-> None]
    ELSE LET r == _parse_accessor_data(g, buf, key[1])
         IN  [ok |-> r.ok, val |-> Some(r.val)]

LengthsAgree_skip(x, positions) == TRUE

\* lines 146-147: if x is not None: assert len(x) == len(positions)
LengthsAgree(x, positions) == IsNone(x) \/ Len(x[1]) = Len(positions)

load_gltf_mesh(g, buf, mesh) ==
    IF Len(mesh.primitives) # 1 THEN RaiseMesh("AssertionError")
    ELSE
    LET primitive == mesh.primitives[1]
        attributes == primitive.attributes
        indices == _parse_accessor_data(g, buf, primitive.indices)
        positions == IF IsNone(attributes.POSITION) THEN Raise("KeyError")
                     ELSE _parse_accessor_data(g, buf, attributes.POSITION[1])
        normals == ParseOptional(g, buf, attributes.NORMAL)
        tangents == ParseOptional(g, buf, attributes.TANGENT)
        texcoords == ParseOptional(g, buf, attributes.TEXCOORD_0)
    IN  IF ~indices.ok THEN RaiseMesh(indices.err)
        ELSE IF ~positions.ok THEN RaiseMesh(positions.err)
        ELSE IF ~normals.ok \/ ~tangents.ok \/ ~texcoords.ok
        THEN RaiseMesh("accessor")
        ELSE IF Len(indices.val) % 3 # 0 THEN RaiseMesh("AssertionError")
        ELSE IF \E x \in {normals.val, tangents.val, texcoords.val} :
                   ~LengthsAgree(x, positions.val)
        THEN RaiseMesh("AssertionError")
        ELSE [ok |-> TRUE, err |-> "none",
              val |-> [indices |-> indices.val, positions |-> positions.val,
                       normals |-> normals.val, tangents |-> tangents.val,
                       texcoords |-> texcoords.val]]

\* "{:.6f}".format(x) of an integer x: its digits, a point and six zeros
Fmt6(x) == [whole |-> x, decimals |-> <<0, 0, 0, 0, 0, 0>>]

\* [v] * n
Repeat(v, n) == [k \in 1..n |-> v]

DefaultTexcoord == <<0, 0>>

DefaultNormal == <<0, 0, 1>>

FaceCorner_raw(i) == <<i, i, i>>

\* "{0}/{0}/{0}" with i + 1
FaceCorner(i) == <<i + 1, i + 1, i + 1>>

NumberLine(tag, v) == [tag |-> tag, nums |-> [k \in 1..Len(v) |-> Fmt6(v[k])]]

FaceLine(tri) == [tag |-> "f", nums |-> [k \in 1..3 |-> FaceCorner(tri[k])]]

\* "\n".join(lines) + "\n": the lines separated by NL, and a final NL
JoinLines(lines) ==
    [k \in 1..(PyMax(2 * Len(lines) - 1, 0) + 1) |->
        IF k % 2 = 1 /\ k < 2 * Len(lines) THEN lines[(k + 1) \div 2] ELSE "NL"]

\* positions and normals are lists of 3-vectors, texcoords of 2-vectors and
\* indices of scalars, so that of the destructuring assignments only the
\* one at line 188 can fail
dump_mesh_data(mesh_data) ==
    LET positions == mesh_data.positions
        texcoords == IF IsNone(mesh_data.texcoords)
                     THEN Repeat(DefaultTexcoord, Len(positions))
                     ELSE mesh_data.texcoords[1]
        normals == IF IsNone(mesh_data.normals)
                   THEN Repeat(DefaultNormal, Len(positions))
                   ELSE mesh_data.normals[1]
        indices == mesh_data.indices
        numFaces == (Len(indices) + 2) \div 3
        tri(k) == PySlice(indices, 3 * (k - 1), 3 * (k - 1) + 3)
        lines == [k \in 1..Len(positions) |-> NumberLine("v", positions[k])]
                 \o [k \in 1..Len(texcoords) |-> NumberLine("vt", texcoords[k])]
                 \o [k \in 1..Len(normals) |-> NumberLine("vn", normals[k])]
                 \o [k \in 1..numFaces |-> FaceLine(tri(k))]
    IN  IF \E k \in 1..numFaces : Len(tri(k)) # 3
        THEN [ok |-> FALSE, text |-> <<>>]
        ELSE [ok |-> TRUE, text |-> JoinLines(lines)]

(***************************************************************************)
(* Inputs of the mesh loader: accessor 0 holds the indices, 1 POSITION,    *)
(* 2 NORMAL, 3 TANGENT and 4 TEXCOORD_0, all over buffer view 0.           *)
(***************************************************************************)
MeshBufLen == 4 * MaxVerts + MaxIdx + 4

MeshAccessor(type, componentType, count) ==
    [bufferView |-> 0, byteOffset |-> None, type |-> type,
     componentType |-> componentType, count |-> count]

OptionalCounts == {None} \cup {Some(n) : n \in 0..MaxVerts}

AttributeKey(optCount, index) == IF IsNone(optCount) THEN None ELSE Some(index)

MeshViewLengths == {MeshBufLen, 4}

NumPrimitives == {0, 1, 2}

InitMesh ==
    /\ \E ic \in 0..MaxIdx, pcount \in OptionalCounts, nc \in OptionalCounts,
          tc \in OptionalCounts, xc \in OptionalCounts, vl \in MeshViewLengths,
          np \in NumPrimitives :
          /\ gltf = [accessors |->
                        << MeshAccessor("SCALAR", UNSIGNED_BYTE, ic),
                           MeshAccessor("VEC3", BYTE, Get(pcount, 0)),
                           MeshAccessor("VEC3", SHORT, Get(nc, 0)),
                           MeshAccessor("VEC4", BYTE, Get(tc, 0)),
                           MeshAccessor("VEC2", UNSIGNED_BYTE, Get(xc, 0)) >>,
                     bufferViews |->
                        << [buffer |-> 0, byteOffset |-> None, byteLength |-> vl,
                            byteStride |-> None] >>,
                     scene |-> 0, scenes |-> <<>>, nodes |-> <<>>]
          /\ arg = [primitives |->
                      Repeat([indices |-> 0,
                              attributes |->
                                 [POSITION |-> AttributeKey(pcount, 1),
                                  NORMAL |-> AttributeKey(nc, 2),
                                  TANGENT |-> AttributeKey(tc, 3),
                                  TEXCOORD_0 |-> AttributeKey(xc, 4)]], np)]
    /\ buffer = MakeBuffer(MeshBufLen)
    /\ pc = "load"
    /\ ret = NoResult
    /\ nodes = <<>>
    /\ idx = 0
    /\ stack = <<>>
    /\ out = <<>>
    /\ fail = NoFailure

\* a call of load_gltf_mesh(gltf, buffer, arg)
LoadMesh ==
    /\ pc = "load"
    /\ ret' = load_gltf_mesh(gltf, buffer, arg)
    /\ pc' = "loaded"
    /\ UNCHANGED <<gltf, buffer, arg, nodes, idx, stack, out, fail>>

\* a call of dump_mesh_data on the record the loader returned
DumpMesh ==
    /\ pc = "loaded"
    /\ ret.ok
    /\ out' = dump_mesh_data(ret.val)
    /\ pc' = "dumped"
    /\ UNCHANGED <<gltf, buffer, arg, ret, nodes, idx, stack, fail>>

NextMesh == LoadMesh \/ DumpMesh

SpecMesh == InitMesh /\ [][NextMesh]_vars

(***************************************************************************)
(* glTF node loading: the Transform class.  A matrix is a 4-tuple of rows. *)
(***************************************************************************)
from_translation(t) ==
    << <<1, 0, 0, t[1]>>,
       <<0, 1, 0, t[2]>>,
       <<0, 0, 1, t[3]>>,
       <<0, 0, 0, 1>> >>

\* math.sqrt, exact on the perfect squares the model's quaternions give
Sqrt(n) == CHOOSE r \in 0..n : r * r <= n /\ (r + 1) * (r + 1) > n

RotationDefined(q) == Sqrt(q[1] * q[1] + q[2] * q[2] + q[3] * q[3] + q[4] * q[4]) # 0

\* the divisions by sqrt_norm are exact for the model's quaternions
from_rotation(q) ==
    LET sqrt_norm == Sqrt(q[1] * q[1] + q[2] * q[2] + q[3] * q[3] + q[4] * q[4])
        x == q[1] \div sqrt_norm
        y == q[2] \div sqrt_norm
        z == q[3] \div sqrt_norm
        w == q[4] \div sqrt_norm
    IN  << <<1 - 2*y*y - 2*z*z, 2*x*y - 2*w*z, 2*x*z + 2*y*w, 0>>,
           <<2*x*y + 2*w*z, 1 - 2*x*x - 2*z*z, 2*y*z - 2*w*x, 0>>,
           <<2*x*z - 2*w*y, 2*y*z + 2*w*x, 1 - 2*x*x - 2*y*y, 0>>,
           <<0, 0, 0, 1>> >>

from_scale(sc) ==
    << <<sc[1], 0, 0, 0>>,
       <<0, sc[2], 0, 0>>,
       <<0, 0, sc[3], 0>>,
       <<0, 0, 0, 1>> >>

\* row r takes matrix[r], matrix[r+4], matrix[r+8], matrix[r+12] (0-based)
from_matrix(matrix) ==
    [r \in 1..4 |-> [c \in 1..4 |-> matrix[(r - 1) + 4 * (c - 1) + 1]]]

from_identity ==
    << <<1, 0, 0, 0>>, <<0, 1, 0, 0>>, <<0, 0, 1, 0>>, <<0, 0, 0, 1>> >>

\* Transform.__mul__
Mul(a, b) ==
    [i \in 1..4 |-> [j \in 1..4 |->
        a[i][1] * b[1][j] + a[i][2] * b[2][j] + a[i][3] * b[3][j] + a[i][4] * b[4][j]]]

(***************************************************************************)
(* print_gltf_transforms.  A Node object is a record; parent and the       *)
(* entries of children are positions in the node table.                    *)
(***************************************************************************)
Node == [transform |-> None, mesh |-> None, parent |-> None, children |-> None]

MatrixExclusive_partial(node_data) ==
    IsNone(node_data.scale) /\ IsNone(node_data.rotation)

\* lines 326-328: a matrix excludes scale, rotation and translation
MatrixExclusive(node_data) ==
    /\ IsNone(node_data.scale)
    /\ IsNone(node_data.rotation)
    /\ IsNone(node_data.translation)

\* lines 325-337; err is the exception raised, "none" if there is none
LocalTransform(node_data) ==
    IF ~IsNone(node_data.matrix)
    THEN IF MatrixExclusive(node_data)
         THEN [err |-> "none", transform |-> from_matrix(node_data.matrix[1])]
         ELSE [err |-> "AssertionError", transform |-> None]
    ELSE LET scale == Get(node_data.scale, <<1, 1, 1>>)
             rotation == Get(node_data.rotation, <<0, 0, 0, 1>>)
             translation == Get(node_data.translation, <<0, 0, 0>>)
         IN  IF ~RotationDefined(rotation)
             THEN [err |-> "ZeroDivisionError", transform |-> None]
             ELSE [err |-> "none",
                   transform |-> Mul(Mul(from_translation(translation),
                                         from_rotation(rotation)),
                                     from_scale(scale))]

ParentIsNone_any(child) == TRUE

\* line 343: assert child.parent is None
ParentIsNone(child) == IsNone(child.parent)

\* lines 341-345 from the k-th listed child on; ns is the node table
RECURSIVE WireChildren(_, _, _, _)
WireChildren(ns, i, children, k) ==
    IF k > Len(children) THEN [err |-> "none", nodes |-> ns, child |-> 0]
    ELSE LET j == children[k]
         IN  IF ~PyIndexOk(ns, j)
             THEN [err |-> "IndexError", nodes |-> ns, child |-> j]
             ELSE IF ~ParentIsNone(PyIndex(ns, j))
             THEN [err |-> "AssertionError", nodes |-> ns, child |-> j]
             ELSE LET c == PyPos(ns, j) + 1
                      wired == [ns EXCEPT ![c].parent = Some(i),
                                          ![i + 1].children =
                                              Some(Append(ns[i + 1].children[1], c - 1))]
                  IN  WireChildren(wired, i, children, k + 1)

ComposeWithParent_swapped(parentTransform, transform) == Mul(transform, parentTransform)

\* line 299: transform = parent.transform * transform
ComposeWithParent(parentTransform, transform) == Mul(parentTransform, transform)

\* lines 298-300; the loop runs forever on a cyclic parent chain, which is
\* the result with ok = FALSE (fuel starts at the number of nodes)
RECURSIVE ParentWalk(_, _, _, _)
ParentWalk(ns, transform, parent, fuel) ==
    IF IsNone(parent) THEN [ok |-> TRUE, transform |-> transform]
    ELSE IF fuel = 0 THEN [ok |-> FALSE, transform |-> transform]
    ELSE ParentWalk(ns, ComposeWithParent(ns[parent[1] + 1].transform, transform),
                    ns[parent[1] + 1].parent, fuel - 1)

\* lines 302-308: the header with the mesh and four rows of "{:.6f}f"
Report(mesh, transform) ==
    [mesh |-> mesh,
     rows |-> [r \in 1..4 |-> [c \in 1..4 |-> Fmt6(transform[r][c])]]]

\* lines 316-319
Validate ==
    /\ pc = "start"
    /\ IF /\ gltf.scene = 0
          /\ Len(gltf.scenes) = 1
          /\ gltf.scenes[1].nodes = <<0>>
       THEN /\ nodes' = [k \in 1..Len(gltf.nodes) |-> Node]
            /\ pc' = IF Len(gltf.nodes) = 0 THEN "built" ELSE "build"
            /\ fail' = fail
       ELSE /\ nodes' = nodes
            /\ pc' = "failed"
            /\ fail' = [err |-> "AssertionError", node |-> 0, child |-> 0]
    /\ UNCHANGED <<gltf, buffer, arg, ret, idx, stack, out>>

\* one iteration of the loop at lines 321-350
BuildNode ==
    /\ pc = "build"
    /\ LET i == idx
           node_data == gltf.nodes[i + 1]
           local == LocalTransform(node_data)
           start == [nodes EXCEPT ![i + 1].transform = local.transform,
                                  ![i + 1].children = Some(<<>>)]
           wired == WireChildren(start, i, Get(node_data.children, <<>>), 1)
       IN  IF local.err # "none"
           THEN /\ fail' = [err |-> local.err, node |-> i, child |-> 0]
                /\ pc' = "failed"
                /\ UNCHANGED <<nodes, idx>>
           ELSE IF wired.err # "none"
           THEN /\ fail' = [err |-> wired.err, node |-> i, child |-> wired.child]
                /\ pc' = "failed"
                /\ nodes' = wired.nodes
                /\ UNCHANGED idx
           ELSE /\ nodes' = [wired.nodes EXCEPT ![i + 1].mesh = node_data.mesh]
                /\ idx' = i + 1
                /\ pc' = IF i + 1 = Len(gltf.nodes) THEN "built" ELSE "build"
                /\ UNCHANGED fail
    /\ UNCHANGED <<gltf, buffer, arg, ret, stack, out>>

\* entry of _print_transform_recursively(nodes[n]) with call stack stk:
\* lines 295-308, then the frame of the loop at lines 310-312
Enter(n, stk) ==
    LET node == nodes[n + 1]
        walk == ParentWalk(nodes, node.transform, node.parent, Len(nodes))
    IN  IF Len(stk) >= RecursionLimit
        THEN /\ pc' = "failed"
             /\ fail' = [err |-> "RecursionError", node |-> n, child |-> 0]
             /\ UNCHANGED <<stack, out>>
        ELSE IF ~IsNone(node.mesh) /\ ~walk.ok
        THEN /\ pc' = "hung"
             /\ UNCHANGED <<stack, out, fail>>
        ELSE /\ pc' = "emit"
             /\ stack' = Append(stk, [node |-> n, pos |-> 0])
             /\ out' = IF IsNone(node.mesh) THEN out
                       ELSE Append(out, Report(node.mesh[1], walk.transform))
             /\ UNCHANGED fail

\* line 352
StartEmit ==
    /\ pc = "built"
    /\ IF Len(nodes) = 0
       THEN /\ pc' = "failed"
            /\ fail' = [err |-> "IndexError", node |-> 0, child |-> 0]
            /\ UNCHANGED <<stack, out>>
       ELSE Enter(0, <<>>)
    /\ UNCHANGED <<gltf, buffer, arg, ret, nodes, idx>>

\* the innermost call of _print_transform_recursively either calls itself on
\* its next child or returns
EmitStep ==
    /\ pc = "emit"
    /\ LET top == stack[Len(stack)]
           children == nodes[top.node + 1].children[1]
       IN  IF top.pos < Len(children)
           THEN Enter(children[top.pos + 1],
                      [stack EXCEPT ![Len(stack)].pos = top.pos + 1])
           ELSE /\ stack' = SubSeq(stack, 1, Len(stack) - 1)
                /\ pc' = IF Len(stack) = 1 THEN "done" ELSE "emit"
                /\ UNCHANGED <<out, fail>>
    /\ UNCHANGED <<gltf, buffer, arg, ret, nodes, idx>>

NextScene == Validate \/ BuildNode \/ StartEmit \/ EmitStep

(***************************************************************************)
(* Inputs of print_gltf_transforms.  The child lists of a document are     *)
(* given by a sequence of (parent, child) edges: node i lists the children *)
(* of its edges, in their order.  The mesh of node i is mesh i.            *)
(***************************************************************************)
NodeIds(n) == 0..(n - 1)

EdgeSeqs(pairs) == UNION {[1..k -> pairs] : k \in 0..MaxEdges}

RECURSIVE ChildList(_, _)
ChildList(edges, i) ==
    IF Len(edges) = 0 THEN <<>>
    ELSE IF edges[1][1] = i THEN <<edges[1][2]>> \o ChildList(Tail(edges), i)
    ELSE ChildList(Tail(edges), i)

ChildrenKey(edges, i) ==
    IF Len(ChildList(edges, i)) = 0 THEN None ELSE Some(ChildList(edges, i))

NodeTranslation(i) == <<i + 1, 2 * i, 0 - i>>

NoTransform == [matrix |-> None, scale |-> None, rotation |-> None, translation |-> None]

ShearMatrix == <<1, 0, 0, 0, 1, 1, 0, 0, 0, 0, 1, 0, 5, 6, 7, 1>>

\* the transform fields of node i under each choice
TransformFields(choice, i) ==
    CASE choice = "I" -> NoTransform
      [] choice = "T" -> [NoTransform EXCEPT !.translation = Some(NodeTranslation(i))]
      [] choice = "TRS" -> [NoTransform EXCEPT !.translation = Some(<<1, 2, 3>>),
                                                !.rotation = Some(<<0, 0, 2, 0>>),
                                                !.scale = Some(<<2, 3, 4>>)]
      [] choice = "M" -> [NoTransform EXCEPT !.matrix = Some(ShearMatrix)]
      [] choice = "M+S" -> [NoTransform EXCEPT !.matrix = Some(ShearMatrix),
                                                !.scale = Some(<<2, 3, 4>>)]
      [] choice = "M+R" -> [NoTransform EXCEPT !.matrix = Some(ShearMatrix),
                                                !.rotation = Some(<<0, 0, 0, 1>>)]
      [] choice = "M+T" -> [NoTransform EXCEPT !.matrix = Some(ShearMatrix),
                                                !.translation = Some(<<1, 2, 3>>)]
      [] choice = "R0" -> [NoTransform EXCEPT !.rotation = Some(<<0, 0, 0, 0>>)]

GoodChoices == {"T", "TRS", "M"}

AllChoices == GoodChoices \cup {"I", "M+S", "M+R", "M+T", "R0"}

NodeData(fields, children, mesh) ==
    [matrix |-> fields.matrix, scale |-> fields.scale, rotation |-> fields.rotation,
     translation |-> fields.translation, children |-> children, mesh |-> mesh]

OneScene == << [nodes |-> <<0>>] >>

SceneLists ==
    {<<>>, OneScene, << [nodes |-> <<1>>] >>, << [nodes |-> <<0, 1>>] >>,
     << [nodes |-> <<>>] >>, << [nodes |-> <<0>>], [nodes |-> <<0>>] >>}

Document(scene, scenes, nodeTable) ==
    [accessors |-> <<>>, bufferViews |-> <<>>, scene |-> scene, scenes |-> scenes,
     nodes |-> nodeTable]

\* edge sequences that list the edges of each parent together, parents in
\* increasing order: one sequence for each choice of child lists
Grouped(edges) == \A k \in 1..(Len(edges) - 1) : edges[k][1] <= edges[k + 1][1]

\* the sets of mesh-bearing nodes: all nodes, the odd ones, the even ones
MeshSets(n) ==
    {NodeIds(n), {k \in NodeIds(n) : k % 2 = 1}, {k \in NodeIds(n) : k % 2 = 0}}

\* a document of n nodes with the child lists of edges, translations only
TreeDocument(n, edges, meshes) ==
    Document(0, OneScene,
        [k \in 1..n |->
            NodeData(TransformFields("T", k - 1), ChildrenKey(edges, k - 1),
                     IF k - 1 \in meshes THEN Some(k - 1) ELSE None)])

\* a document that varies the scene header and the transform fields
HeaderDocument(scene, scenes, choices) ==
    Document(scene, scenes,
        [k \in 1..Len(choices) |->
            NodeData(TransformFields(choices[k], k - 1),
                     IF k = 1 /\ Len(choices) > 1 THEN Some(<<1>>) ELSE None,
                     Some(k - 1))])

\* parent[k + 1] is the parent of node k, or -1: a lower node for k > 0, and
\* node 1 for node 0
ParentChoices(n) ==
    {parent \in [1..n -> -1..(n - 1)] :
        /\ parent[1] \in {-1, 1}
        /\ \A k \in 2..n : parent[k] < k - 1}

\* a document of n nodes, every node with a mesh and a transform of its
\* own, node k listed under parent[k + 1]
ChainDocument(n, parent, choices) ==
    Document(0, OneScene,
        [k \in 1..n |->
            NodeData(TransformFields(choices[k], k - 1),
                     ChildrenKey([q \in 1..n |-> <<parent[q], q - 1>>], k - 1),
                     Some(k - 1))])

InitRun ==
    /\ buffer = <<>>
    /\ arg = 0
    /\ pc = "start"
    /\ ret = NoResult
    /\ nodes = <<>>
    /\ idx = 0
    /\ stack = <<>>
    /\ out = <<>>
    /\ fail = NoFailure

\* child lists over the node indices, with child indices below 0 and past
\* the end of the node table in lists of at most two edges, and the header
\* documents
InitScene ==
    /\ \/ \E n \in 1..MaxNodes :
             \E edges \in EdgeSeqs(NodeIds(n) \X NodeIds(n)), meshes \in MeshSets(n) :
                /\ Grouped(edges)
                /\ gltf = TreeDocument(n, edges, meshes)
       \/ \E k \in 1..2 :
             \E edges \in [1..k -> NodeIds(MaxNodes) \X (-1..MaxNodes)] :
                gltf = TreeDocument(MaxNodes, edges, NodeIds(MaxNodes))
       \/ \E scene \in {0, 1}, scenes \in SceneLists, n \in 0..2 :
             \E choices \in [1..n -> AllChoices] :
                gltf = HeaderDocument(scene, scenes, choices)
    /\ InitRun

InitXform ==
    /\ \E n \in 1..MaxNodes :
          \E parent \in ParentChoices(n), choices \in [1..n -> GoodChoices] :
             gltf = ChainDocument(n, parent, choices)
    /\ InitRun

SpecScene == InitScene /\ [][NextScene]_vars

SpecXform == InitXform /\ [][NextScene]_vars

(***************************************************************************)
(* Claims about the accessor decoder.  The geometry below is read from the *)
(* document by glTF's rules: an index is a position 0..len-1 of its array  *)
(* and a byte offset counts from the start of the buffer.                  *)
(***************************************************************************)
IsArrayIndex(s, i) == i >= 0 /\ i < Len(s)

CallResolves ==
    /\ PyIndexOk(gltf.accessors, arg)
    /\ PyIndexOk(gltf.bufferViews, PyIndex(gltf.accessors, arg).bufferView)

CallAccessor == PyIndex(gltf.accessors, arg)

CallView == PyIndex(gltf.bufferViews, CallAccessor.bufferView)

CallElementSize ==
    NUM_COMPONENTS(CallAccessor.type) * COMPONENT_SIZE(CallAccessor.componentType)

CallStride ==
    IF Get(CallView.byteStride, 0) > CallElementSize
    THEN Get(CallView.byteStride, 0) ELSE CallElementSize

CallBegin(i) ==
    Get(CallAccessor.byteOffset, 0) + Get(CallView.byteOffset, 0) + i * CallStride

CallBoundViolated ==
    Get(CallAccessor.byteOffset, 0) + CallStride * (CallAccessor.count - 1)
        + CallElementSize > CallView.byteLength

InsideView(p) ==
    /\ p >= Get(CallView.byteOffset, 0)
    /\ p < Get(CallView.byteOffset, 0) + CallView.byteLength

\* the n bytes of the buffer that start at offset b from its start
BytesAt(b, n) == [k \in 1..n |-> buffer[b + k]]

InsideBuffer(b, n) == b >= 0 /\ b + n <= Len(buffer)

\* C1: the decoder fails whenever accessor.byteOffset + stride*(count-1) +
\* element_size exceeds view.byteLength, and whenever it returns, every byte
\* it read lies inside [view.byteOffset, view.byteOffset + view.byteLength)
\* and every element was read at its full size.
C1_ReadsInsideView ==
    (pc = "parsed" /\ CallResolves) =>
        /\ CallBoundViolated => ~ret.ok
        /\ ret.ok => /\ \A p \in ret.reads : InsideView(p)
                     /\ \A i \in 0..(CallAccessor.count - 1) :
                           Cardinality(SlicePositions(buffer, CallBegin(i),
                               CallBegin(i) + CallElementSize)) = CallElementSize

\* C2: a successful decode returns exactly count elements, element i being
\* decoded from exactly the element_size bytes that start at buffer offset
\* (accessor.byteOffset + view.byteOffset) + i*element_stride.
C2_ElementsAtStride ==
    (pc = "parsed" /\ ret.ok) =>
        /\ Len(ret.val) = CallAccessor.count
        /\ \A i \in 0..(CallAccessor.count - 1) :
              /\ InsideBuffer(CallBegin(i), CallElementSize)
              /\ ret.val[i + 1] =
                    _parse_element_data(CallAccessor.type, CallAccessor.componentType,
                        BytesAt(CallBegin(i), CallElementSize)).val

MalformedReference ==
    \/ ~IsArrayIndex(gltf.accessors, arg)
    \/ ~CallResolves
    \/ ~IsArrayIndex(gltf.bufferViews, CallAccessor.bufferView)
    \/ CallView.buffer # 0
    \/ \E i \in 0..(CallAccessor.count - 1) :
          ~InsideBuffer(CallBegin(i), CallElementSize)

\* C8: the decoder fails for every malformed reference: an accessor or
\* buffer-view index outside its array, a view of a buffer other than 0, or
\* an element whose byte range is not inside the buffer.
C8_MalformedReferenceFails ==
    (pc = "parsed" /\ MalformedReference) => ~ret.ok

(***************************************************************************)
(* Claims about the mesh loader and dumper.                                *)
(***************************************************************************)
Loaded == pc \in {"loaded", "dumped"}

AccessorCount(k) == gltf.accessors[k + 1].count

\* the attribute under key is absent from the primitive and from the record,
\* or present in both with as many elements as there are positions
AbsentOrParallel(key, x) ==
    \/ IsNone(key) /\ IsNone(x)
    \/ ~IsNone(key) /\ ~IsNone(x) /\ Len(x[1]) = Len(ret.val.positions)

\* a document that breaks one of the loader's three rules
MeshRuleBroken ==
    \/ Len(arg.primitives) # 1
    \/ AccessorCount(0) % 3 # 0
    \/ \E key \in {arg.primitives[1].attributes.NORMAL,
                   arg.primitives[1].attributes.TANGENT,
                   arg.primitives[1].attributes.TEXCOORD_0} :
          ~IsNone(key) /\ AccessorCount(key[1]) # AccessorCount(1)

\* C6: load_gltf_mesh returns a record only if the mesh has exactly one
\* primitive, the index count is a multiple of 3 and each of normals,
\* tangents and texcoords is absent or as long as positions; a document
\* that breaks one of these makes the call fail.
C6_MeshDataValid ==
    Loaded =>
        /\ ret.ok =>
              /\ Len(arg.primitives) = 1
              /\ Len(ret.val.indices) % 3 = 0
              /\ AbsentOrParallel(arg.primitives[1].attributes.NORMAL, ret.val.normals)
              /\ AbsentOrParallel(arg.primitives[1].attributes.TANGENT, ret.val.tangents)
              /\ AbsentOrParallel(arg.primitives[1].attributes.TEXCOORD_0, ret.val.texcoords)
        /\ MeshRuleBroken => ~ret.ok

C6_Witness ==
    /\ pc = "loaded"
    /\ ret.ok
    /\ Len(ret.val.indices) = 3
    /\ Len(ret.val.positions) = 2
    /\ ~IsNone(ret.val.normals)
    /\ IsNone(ret.val.tangents)
    /\ ~IsNone(ret.val.texcoords)

DumpP == Len(ret.val.positions)

DumpT == Len(ret.val.indices) \div 3

\* the k-th line of the dumped text
DumpLine(k) == out.text[2 * k - 1]

Zero6 == [whole |-> 0, decimals |-> <<0, 0, 0, 0, 0, 0>>]

One6 == [whole |-> 1, decimals |-> <<0, 0, 0, 0, 0, 0>>]

Corner(i) == <<ret.val.indices[i] + 1, ret.val.indices[i] + 1, ret.val.indices[i] + 1>>

NumNodes == Len(gltf.nodes)

DocChildren(a) == Get(gltf.nodes[a + 1].children, <<>>)

\* node a lists the index j as a child
Lists(a, j) == \E k \in 1..Len(DocChildren(a)) : DocChildren(a)[k] = j

\* the loop at lines 321-350 has completed
LoopCompleted == pc \in {"built", "emit", "done", "hung"}

\* C3: when some index is listed as a child by two different nodes, the
\* build fails no later than at the second of them: the loop never
\* completes and never goes past that node.
C3_SecondParentFails ==
    \A a \in NodeIds(NumNodes), b \in NodeIds(NumNodes), j \in -1..NumNodes :
        (a < b /\ Lists(a, j) /\ Lists(b, j)) =>
            /\ ~LoopCompleted
            /\ fail.err # "RecursionError"
            /\ idx <= b

C3_Witness ==
    /\ pc = "failed"
    /\ NumNodes = 3
    /\ Lists(0, 2)
    /\ Lists(1, 2)
    /\ fail = [err |-> "AssertionError", node |-> 1, child |-> 2]
    /\ nodes[3].parent = Some(0)

\* following parent links from the node at parent reaches a node without
\* parent within fuel steps
RECURSIVE ReachesRoot(_, _)
ReachesRoot(parent, fuel) ==
    IF IsNone(parent) THEN TRUE
    ELSE IF fuel = 0 THEN FALSE
    ELSE ReachesRoot(nodes[parent[1] + 1].parent, fuel - 1)

\* the number of child-list entries that are node n
TimesListed(n) ==
    Cardinality({e \in NodeIds(NumNodes) \X (1..MaxEdges) :
                    /\ e[2] <= Len(nodes[e[1] + 1].children[1])
                    /\ nodes[e[1] + 1].children[1][e[2]] = n})

\* C4: when the construction loop completes, the graph is a tree rooted at
\* node 0: node 0 has no parent, every node has at most one parent and no
\* chain of parent links revisits a node.
C4_TreeRootedAtZero ==
    (pc = "built" /\ NumNodes > 0) =>
        /\ IsNone(nodes[1].parent)
        /\ \A n \in NodeIds(NumNodes) :
              /\ TimesListed(n) <= 1
              /\ ReachesRoot(nodes[n + 1].parent, NumNodes)

\* the node whose child list holds n, if there is one
DocParent(n) ==
    IF \E a \in NodeIds(NumNodes) : Lists(a, n) \/ Lists(a, n - NumNodes)
    THEN Some(CHOOSE a \in NodeIds(NumNodes) : Lists(a, n) \/ Lists(a, n - NumNodes))
    ELSE None

\* the ancestors of n from the topmost down, then n
RECURSIVE Chain(_, _)
Chain(n, fuel) ==
    IF IsNone(DocParent(n)) \/ fuel = 0 THEN <<n>>
    ELSE Append(Chain(DocParent(n)[1], fuel - 1), n)

Local(n) == LocalTransform(gltf.nodes[n + 1]).transform

\* L(chain[1]) * ... * L(chain[k]), multiplied from the left
RECURSIVE ChainProduct(_, _)
ChainProduct(chain, k) ==
    IF k = 1 THEN Local(chain[1])
    ELSE Mul(ChainProduct(chain, k - 1), Local(chain[k]))

TranslationOnly(n) ==
    /\ IsNone(gltf.nodes[n + 1].matrix)
    /\ IsNone(gltf.nodes[n + 1].scale)
    /\ IsNone(gltf.nodes[n + 1].rotation)
    /\ ~IsNone(gltf.nodes[n + 1].translation)

RECURSIVE TranslationSum(_, _, _)
TranslationSum(chain, k, c) ==
    IF k = 0 THEN 0
    ELSE gltf.nodes[chain[k] + 1].translation[1][c] + TranslationSum(chain, k - 1, c)

SixDecimals(m) ==
    [r \in 1..4 |-> [c \in 1..4 |-> [whole |-> m[r][c], decimals |-> <<0, 0, 0, 0, 0, 0>>]]]

\* C5: every emitted world transform is the product of the local transforms
\* along the node's ancestor chain, topmost ancestor first and the node
\* last; along a chain of translations it is the translation by their sum.
C5_WorldIsChainProduct ==
    \A k \in 1..Len(out) :
        LET chain == Chain(out[k].mesh, NumNodes)
        IN  /\ out[k].rows = SixDecimals(ChainProduct(chain, Len(chain)))
            /\ (\A q \in 1..Len(chain) : TranslationOnly(chain[q])) =>
                  out[k].rows =
                      SixDecimals(<< <<1, 0, 0, TranslationSum(chain, Len(chain), 1)>>,
                                     <<0, 1, 0, TranslationSum(chain, Len(chain), 2)>>,
                                     <<0, 0, 1, TranslationSum(chain, Len(chain), 3)>>,
                                     <<0, 0, 0, 1>> >>)

C5_Witness ==
    /\ pc = "done"
    /\ Len(out) = 3
    /\ Chain(out[3].mesh, NumNodes) = <<0, 1, 2>>
    /\ ~IsNone(gltf.nodes[1].scale)
    /\ ~IsNone(gltf.nodes[2].matrix)
    /\ ~IsNone(gltf.nodes[3].rotation)

\* the mesh-bearing nodes below and including n, depth first, each before
\* its children, children in listed order
RECURSIVE PreOrder(_, _)
RECURSIVE PreOrderFrom(_, _, _)
PreOrder(n, fuel) ==
    IF fuel = 0 THEN <<>>
    ELSE (IF IsNone(gltf.nodes[n + 1].mesh) THEN <<>> ELSE <<gltf.nodes[n + 1].mesh[1]>>)
         \o PreOrderFrom(DocChildren(n), 1, fuel - 1)

PreOrderFrom(children, k, fuel) ==
    IF k > Len(children) THEN <<>>
    ELSE PreOrder(PyPos(gltf.nodes, children[k]), fuel)
         \o PreOrderFrom(children, k + 1, fuel)

EmittedMeshes == [k \in 1..Len(out) |-> out[k].mesh]

IsPrefix(s, t) == Len(s) <= Len(t) /\ \A k \in 1..Len(s) : s[k] = t[k]

\* the emit pass has begun
EmitBegun == pc \in {"emit", "done", "hung"} \/ fail.err = "RecursionError"

\* C9: once the construction loop has completed the emit pass terminates,
\* that is, it neither loops in a parent walk nor nests without end, and the
\* reports are the depth-first pre-order of the mesh-bearing nodes under
\* node 0, each once.
C9_EmitPreorder ==
    EmitBegun =>
        /\ pc # "hung"
        /\ pc # "failed"
        /\ IsPrefix(EmittedMeshes, PreOrder(0, NumNodes))
        /\ pc = "done" => EmittedMeshes = PreOrder(0, NumNodes)

SchemaViolation ==
    \/ Len(gltf.scenes) # 1
    \/ gltf.scene # 0
    \/ gltf.scenes[1].nodes # <<0>>
    \/ \E k \in 1..NumNodes :
          /\ ~IsNone(gltf.nodes[k].matrix)
          /\ \/ ~IsNone(gltf.nodes[k].scale)
             \/ ~IsNone(gltf.nodes[k].rotation)
             \/ ~IsNone(gltf.nodes[k].translation)

\* C10: a document that breaks a scene-graph schema rule never gets past
\* the construction loop and emits no report, and no run that fails has
\* emitted a report.
C10_NoPartialOutput ==
    /\ SchemaViolation => (out = <<>> /\ pc \in {"start", "build", "failed"})
    /\ pc = "failed" => out = <<>>

C10_Witness ==
    /\ pc = "failed"
    /\ gltf.scene = 0
    /\ gltf.scenes = OneScene
    /\ NumNodes = 2
    /\ ~IsNone(gltf.nodes[2].matrix)
    /\ ~IsNone(gltf.nodes[2].translation)
    /\ fail = [err |-> "AssertionError", node |-> 1, child |-> 0]
    /\ nodes[1].mesh = Some(0)
    /\ out = <<>>

====
